---- MODULE Spec2Model ----
(***************************************************************************)
(* HughesLabTools: DeviceManager / Device / ImageTypeChangerGui.           *)
(*                                                                         *)
(* The model follows one DeviceManager through run_selected_processes:    *)
(* the directory walk and the grouping of the scanned files into devices,  *)
(* then, device by device, the confirm-types dialog loop, the colorize     *)
(* loop and the merge.  A second specification, SpecApi, drives            *)
(* Device.update_image_type with arbitrary arguments on grouped devices.   *)
(* SpecMerge applies Device._merge_images to lists of images of any size,  *)
(* and SpecSort applies DeviceManager._get_sorted_image_files to listings  *)
(* of file names spelled out character by character.  SpecDirs is Spec     *)
(* over roots whose devices span several directories.                      *)
(*                                                                         *)
(* Representation.  A path is a record                                     *)
(*   [dir, sub, base, suffix, abs]: directory number (0 is rootDir, in     *)
(*   os.walk visiting order), the generated sub-directory ("" for a raw    *)
(*   file, "colored", "merged"), the basename without extension, what has  *)
(*   been appended to the basename, and whether the spelling is absolute.  *)
(* Python's None is <<>> for a raw-path list (the code never leaves an     *)
(* empty list in the dictionary: update_image_type turns it into None and  *)
(* _set_image_path appends right after creating one) and NoPath for a      *)
(* colored-path slot.                                                      *)
(***************************************************************************)
EXTENDS Integers, Sequences, FiniteSets, TLC

\* ---------------------------------------------------------------- bounds
MaxFiles == 4
MaxTypes == 2
FilesPerDir == 2
MaxListLen == 3
MaxImages == 3
MaxListing == 3

\* ------------------------------------------------------- program constants
default_names == <<"Vessels", "Tumor", "Fibroblasts", "Cell 1", "Cell 2", "Cell 3">>
possible_colors == <<"Red", "Green", "Blue", "Cyan", "Magenta", "Yellow">>

\* ------------------------------------------------------------------ helpers
None == <<>>
NoPath == [dir |-> -1, sub |-> "None", base |-> 0, suffix |-> "", abs |-> TRUE]

Range(s) == {s[i] : i \in 1..Len(s)}
Min(a, b) == IF a <= b THEN a ELSE b
Last(s) == s[Len(s)]

\* list.index: the position of the first occurrence of x in s (x is in s)
IndexOf(s, x) == CHOOSE i \in 1..Len(s) : s[i] = x /\ \A j \in 1..(i - 1) : s[j] # x

\* list.remove(x): drops the first occurrence only
ListRemove(s, x) ==
    LET i == IndexOf(s, x)
    IN  SubSeq(s, 1, i - 1) \o SubSeq(s, i + 1, Len(s))

\* The i-th file the walk yields (1-based) when every directory holds perDir
\* files, with the same basenames in every directory
FileIn(i, perDir) ==
    [dir |-> (i - 1) \div perDir, sub |-> "", base |-> ((i - 1) % perDir) + 1,
     suffix |-> "", abs |-> TRUE]

\* The i-th file the walk yields: FilesPerDir files per directory
File(i) == FileIn(i, FilesPerDir)

\* os.path.abspath: makes a relative spelling absolute, leaves an absolute one
abspath(p) == [p EXCEPT !.abs = TRUE]

\* os.path.dirname of a raw file path
dirname(p) == p.dir

VARIABLES
    typeNames,      \* DeviceManager.typeNames (also every Device.typeNames)
    numTypes,       \* DeviceManager.numTypes
    typeColors,     \* DeviceManager.typeColors
    verbose,        \* DeviceManager.verbose, handed to every Device
    options,        \* DeviceManager.options: confirm_image_types, color, merge
    dictOrder,      \* the iteration order of Device.image_paths (a dict)
    fsFiles,        \* the raw image files under rootDir, in walking order
    rootReadable,   \* whether os.listdir(rootDir) succeeds
    process_subdirectories, \* DeviceManager.options['process_subdirectories']
    image_files,    \* walk_directory_and_add_images: image_files
    devices,        \* DeviceManager.devices
    device_dict,    \* DeviceManager.device_dict: name -> position in devices
    printed,        \* what DeviceManager.log has printed
    written,        \* output files saved by this run
    pc,             \* position in run_selected_processes
    cur,            \* the for loop's device (1-based)
    stageIdx,       \* which of the three stages of the loop body is next
    pos,            \* [t, i]: position of the running confirm or colorize loop
    stageSt,        \* per device and stage: "none", "running", "done"
    outcomes,       \* per device and type: what colorize did with each image
    mergeResult,    \* per device: "none", "skipped", "ok", "unsaved", "error"
    call,           \* the latest update_image_type call, or a canceled dialog
    colorOf,        \* per device and type: the color colorize was called with
    unreleased,     \* the devices whose colorize left a loaded buffer unclosed
    shown,          \* the images the running confirm loop has presented before
                    \* the one at pos
    listing,        \* SpecSort: the file names os.walk lists for one directory
    sorted_files,   \* SpecSort: what _get_sorted_image_files returns for them
    images,         \* SpecMerge: the images handed to Device._merge_images
    stack           \* SpecMerge: the slices _merge_images puts on the stack

vars == <<typeNames, numTypes, typeColors, verbose, options, dictOrder, fsFiles,
          rootReadable, process_subdirectories,
          image_files, devices, device_dict, printed, written, pc, cur, stageIdx,
          pos, stageSt, outcomes, mergeResult, call, colorOf, unreleased,
          shown, listing, sorted_files, images, stack>>

config == <<typeNames, numTypes, typeColors, verbose, options, dictOrder, fsFiles,
            rootReadable, process_subdirectories>>

\* The variables of the two function-level specifications
bench == <<listing, sorted_files, images, stack>>

NoCall ==
    [op |-> "none", dev |-> 0, path |-> NoPath, old |-> "", new |-> "",
     present |-> FALSE, raised |-> FALSE]

\* ------------------------------------------------------------------- Device
\* Device.__init__: one raw-path slot and one colored-path slot per type name
Device(names, name, deviceDir) ==
    [name |-> name, deviceDir |-> deviceDir,
     image_paths |-> [t \in Range(names) |-> None],
     colored_image_paths |-> [t \in Range(names) |-> NoPath]]

\* Device._set_image_path
_set_image_path(dev, image_type, image_path) ==
    IF image_type \in DOMAIN dev.image_paths
    THEN [dev EXCEPT !.image_paths[image_type] = Append(@, abspath(image_path))]
    ELSE dev

\* Device.set_image_paths(image_type=..., image_path=...): the third branch
set_image_paths(dev, image_type, image_path) ==
    _set_image_path(dev, image_type, image_path)

\* Device.get_image_paths(image_type): dict.get(image_type, [])
get_image_paths(dev, image_type) ==
    IF image_type \in DOMAIN dev.image_paths THEN dev.image_paths[image_type] ELSE <<>>

\* Device.set_colored_image_path
set_colored_image_path(dev, image_type, image_path) ==
    IF image_type \in DOMAIN dev.colored_image_paths
    THEN [dev EXCEPT !.colored_image_paths[image_type] = abspath(image_path)]
    ELSE dev

\* C6 mutant: the path is put at the head of the new type's list
AppendToTypeAtHead(paths, new_type, image_path) ==
    [t \in DOMAIN paths \cup {new_type} |->
        IF t = new_type
        THEN <<image_path>> \o (IF t \in DOMAIN paths THEN paths[t] ELSE <<>>)
        ELSE paths[t]]

\* image_paths[new_type].append(image_path), the key and the list created if
\* absent (Device.update_image_type, lines 88-90)
AppendToType(paths, new_type, image_path) ==
    [t \in DOMAIN paths \cup {new_type} |->
        IF t = new_type
        THEN Append(IF t \in DOMAIN paths THEN paths[t] ELSE <<>>, image_path)
        ELSE paths[t]]

\* Device.update_image_type: the device afterwards and whether an exception
\* left the method ("x in None" is a TypeError)
update_image_type(dev, image_path, old_type, new_type) ==
    IF old_type \in DOMAIN dev.image_paths
    THEN IF dev.image_paths[old_type] = None
         THEN [dev |-> dev, raised |-> TRUE]
         ELSE LET removed ==
                      IF image_path \in Range(dev.image_paths[old_type])
                      THEN [dev.image_paths EXCEPT ![old_type] = ListRemove(@, image_path)]
                      ELSE dev.image_paths
              IN  [dev |-> [dev EXCEPT !.image_paths =
                                AppendToType(removed, new_type, image_path)],
                   raised |-> FALSE]
    ELSE [dev |-> dev, raised |-> FALSE]

\* <deviceDir>/colored/<basename>_colored<ext> (lines 135-141)
ColoredPath(dev, image_path) ==
    [dir |-> dev.deviceDir, sub |-> "colored", base |-> image_path.base,
     suffix |-> image_path.suffix \o "_colored", abs |-> TRUE]

\* <deviceDir>/merged/<name>_merged.tif (lines 180-185)
MergedPath(dev) ==
    [dir |-> dev.deviceDir, sub |-> "merged", base |-> dev.name,
     suffix |-> "_merged", abs |-> TRUE]

\* What can happen to one image in _apply_color_to_single_image: everything
\* succeeds; _load_image raises; apply_color raises; DeviceImage.save fails
\* (it catches the exception itself and returns False).
ColorOutcomes == {"ok", "load_error", "color_error", "save_failed"}

\* self._load_image(image_path) (line 133): the buffer it has loaded, none when
\* it is the call that raises
LoadedBy(image_path, outcome) == IF outcome = "load_error" THEN {} ELSE {image_path}

\* C9 mutant: the except clause is missing
apply_color_uncaught(dev, img_type, image_path, outcome) ==
    IF outcome \in {"load_error", "color_error"}
    THEN [dev |-> dev, raised |-> TRUE, wrote |-> {}, result |-> "error",
          loaded |-> LoadedBy(image_path, outcome), held |-> LoadedBy(image_path, outcome)]
    ELSE [dev |-> set_colored_image_path(dev, img_type, ColoredPath(dev, image_path)),
          raised |-> FALSE,
          wrote |-> IF outcome = "ok" THEN {ColoredPath(dev, image_path)} ELSE {},
          result |-> outcome,
          loaded |-> {image_path}, held |-> {image_path}]

\* C8 mutant: the slot is only filled while it is still unset
apply_color_first_wins(dev, img_type, image_path, outcome) ==
    IF outcome \in {"load_error", "color_error"}
    THEN [dev |-> dev, raised |-> FALSE, wrote |-> {}, result |-> "error",
          loaded |-> LoadedBy(image_path, outcome), held |-> LoadedBy(image_path, outcome)]
    ELSE [dev |-> IF get_image_paths(dev, img_type) # <<>>
                     /\ img_type \in DOMAIN dev.colored_image_paths
                     /\ dev.colored_image_paths[img_type] # NoPath
                  THEN dev
                  ELSE set_colored_image_path(dev, img_type, ColoredPath(dev, image_path)),
          raised |-> FALSE,
          wrote |-> IF outcome = "ok" THEN {ColoredPath(dev, image_path)} ELSE {},
          result |-> outcome,
          loaded |-> {image_path}, held |-> {image_path}]

\* Device._apply_color_to_single_image: the device afterwards, whether an
\* exception left the method, the files saved, what is recorded of it, the
\* buffers _load_image has loaded and those of them no close() was called on
\* (the method calls none)
_apply_color_to_single_image(dev, img_type, image_path, outcome) ==
    IF outcome \in {"load_error", "color_error"}
    THEN [dev |-> dev, raised |-> FALSE, wrote |-> {}, result |-> "error",
          loaded |-> LoadedBy(image_path, outcome), held |-> LoadedBy(image_path, outcome)]
    ELSE [dev |-> set_colored_image_path(dev, img_type, ColoredPath(dev, image_path)),
          raised |-> FALSE,
          wrote |-> IF outcome = "ok" THEN {ColoredPath(dev, image_path)} ELSE {},
          result |-> outcome,
          loaded |-> {image_path}, held |-> {image_path}]

\* merge_images, lines 159-164: the set colored paths, in typeNames order
RECURSIVE all_colored_image_paths(_, _, _)
all_colored_image_paths(dev, names, i) ==
    IF i > Len(names) THEN <<>>
    ELSE (IF dev.colored_image_paths[names[i]] # NoPath
          THEN <<dev.colored_image_paths[names[i]]>> ELSE <<>>)
         \o all_colored_image_paths(dev, names, i + 1)

\* What can happen in merge_images once there is something to merge: the merged
\* image is saved; the first _load_image raises; cropping or projecting raises
\* after the images were loaded; save returns False.
MergeOutcomes == {"ok", "load_error", "error", "save_failed"}

\* merge_images, lines 166-172: the buffers the list comprehension has loaded
MergeLoaded(paths, outcome) == IF outcome = "load_error" THEN {} ELSE Range(paths)

\* What merge_images records of an outcome
MergeResultOf(outcome) ==
    CASE outcome = "ok" -> "ok"
      [] outcome \in {"load_error", "error"} -> "error"
      [] OTHER -> "unsaved"

\* C10 mutant: the except clause is missing
merge_images_uncaught(dev, names, outcome) ==
    LET paths == all_colored_image_paths(dev, names, 1)
    IN  IF paths = <<>>
        THEN [dev |-> dev, raised |-> FALSE, wrote |-> {}, result |-> "skipped",
              loaded |-> {}, held |-> {}]
        ELSE [dev |-> dev, raised |-> outcome \in {"load_error", "error"},
              wrote |-> IF outcome = "ok" THEN {MergedPath(dev)} ELSE {},
              result |-> MergeResultOf(outcome),
              loaded |-> MergeLoaded(paths, outcome), held |-> MergeLoaded(paths, outcome)]

\* C11 mutant: the test "if all_colored_image_paths:" is missing, so that
\* _merge_images is handed an empty list and raises ValueError
merge_images_unguarded(dev, names, outcome) ==
    LET paths == all_colored_image_paths(dev, names, 1)
    IN  IF paths = <<>>
        THEN [dev |-> dev, raised |-> FALSE, wrote |-> {}, result |-> "error",
              loaded |-> {}, held |-> {}]
        ELSE [dev |-> dev, raised |-> FALSE,
              wrote |-> IF outcome = "ok" THEN {MergedPath(dev)} ELSE {},
              result |-> MergeResultOf(outcome),
              loaded |-> MergeLoaded(paths, outcome), held |-> MergeLoaded(paths, outcome)]

\* Device.merge_images: the device afterwards, whether an exception left the
\* method, the files saved, what is recorded of it, the buffers loaded and
\* those still open at the end: neither the loaded images (or, after a crop,
\* their cropped copies) nor the merged image are closed
merge_images(dev, names, outcome) ==
    LET paths == all_colored_image_paths(dev, names, 1)
    IN  IF paths = <<>>
        THEN [dev |-> dev, raised |-> FALSE, wrote |-> {}, result |-> "skipped",
              loaded |-> {}, held |-> {}]
        ELSE [dev |-> dev, raised |-> FALSE,
              wrote |-> IF outcome = "ok" THEN {MergedPath(dev)} ELSE {},
              result |-> MergeResultOf(outcome),
              loaded |-> MergeLoaded(paths, outcome), held |-> MergeLoaded(paths, outcome)]

\* ---- Device._merge_images.  An image is [title, width, height, left, top,
\* fresh]: left and top locate its pixels in the image that was loaded, and
\* fresh tells a DeviceImage made by the crop from one that was loaded.
MinOf(S) == CHOOSE x \in S : \A y \in S : x <= y

\* A loaded image of the given size
LoadedImage(title, width, height) ==
    [title |-> title, width |-> width, height |-> height, left |-> 0, top |-> 0,
     fresh |-> FALSE]

\* processor.setRoi(x, y, w, h); processor.crop() and the new DeviceImage made
\* of it (lines 215-221): the rectangle is clipped to the image
crop(img, x, y, w, h) ==
    [title |-> img.title,
     width |-> Min(w, img.width - x), height |-> Min(h, img.height - y),
     left |-> img.left + x, top |-> img.top + y, fresh |-> TRUE]

\* C15 mutant: the size of the narrowest image is taken for both dimensions
crop_size_of_narrowest(imgs) ==
    LET i == CHOOSE j \in 1..Len(imgs) :
                 \A k \in 1..Len(imgs) : imgs[j].width <= imgs[k].width
    IN  [width |-> imgs[i].width, height |-> imgs[i].height]

\* _crop_to_smallest_dimensions, lines 204-205: min_width and min_height
crop_size(imgs) ==
    [width |-> MinOf({imgs[i].width : i \in 1..Len(imgs)}),
     height |-> MinOf({imgs[i].height : i \in 1..Len(imgs)})]

\* Device._crop_to_smallest_dimensions
_crop_to_smallest_dimensions(imgs) ==
    LET size == crop_size(imgs)
    IN  [i \in 1..Len(imgs) |-> crop(imgs[i], 0, 0, size.width, size.height)]

\* _merge_images, line 239: every image has the size of the first one
SameDimensions(imgs) ==
    \A i \in 1..Len(imgs) :
        imgs[i].width = imgs[1].width /\ imgs[i].height = imgs[1].height

\* Device._merge_images for a non-empty list: the ImageStack it builds, and
\* whether addSlice rejects a slice whose size is not the stack's
_merge_images(imgs) ==
    LET slices == IF SameDimensions(imgs) THEN imgs
                  ELSE _crop_to_smallest_dimensions(imgs)
    IN  [slices |-> slices, width |-> slices[1].width, height |-> slices[1].height,
         raised |-> \E i \in 1..Len(slices) :
                        slices[i].width # slices[1].width
                        \/ slices[i].height # slices[1].height]

\* ------------------------------------------------------------ DeviceManager
\* DeviceManager.log: what the call prints
log(message, level) ==
    IF level = "WARNING" \/ (verbose /\ level = "INFO") THEN {message} ELSE {}

\* C1 mutant: the device offset is not scaled by the type count
img_index_unscaled(device_idx, type_idx) == device_idx + type_idx

\* walk_directory_and_add_images, line 146 (0-based indices)
img_index(device_idx, type_idx) == device_idx * numTypes + type_idx

\* walk_directory_and_add_images, lines 145-149: enumerate(self.typeNames)
RECURSIVE AssignTypes(_, _, _, _)
AssignTypes(dev, files, device_idx, type_idx) ==
    IF type_idx >= Len(typeNames) THEN dev
    ELSE LET i == img_index(device_idx, type_idx)
         IN  AssignTypes(IF i < Len(files)
                         THEN set_image_paths(dev, typeNames[type_idx + 1], files[i + 1])
                         ELSE dev,
                         files, device_idx, type_idx + 1)

\* DeviceManager.add_device, called with "Device_<device_idx + 1>" and the
\* directory of the device's first file (lines 138-141)
add_device(files, device_idx) ==
    Device(typeNames, device_idx + 1, dirname(files[device_idx * numTypes + 1]))

\* C12 mutant: the surplus files are dropped and the leading ones are grouped
GroupLeading(files) ==
    [k \in 1..(Len(files) \div numTypes) |->
        AssignTypes(add_device(files, k - 1), files, k - 1, 0)]

\* walk_directory_and_add_images, lines 129-149: the devices list afterwards
GroupDevices(files) ==
    IF Len(files) % numTypes # 0
    THEN <<>>
    ELSE [k \in 1..(Len(files) \div numTypes) |->
            AssignTypes(add_device(files, k - 1), files, k - 1, 0)]

\* ---- DeviceManager._get_sorted_image_files on file names spelled out.  A
\* string is a tuple of characters; Chars lists the characters used, in ASCII
\* order.
Chars == <<".", "/", "0", "1", "2", "A", "B", "a", "b", "f", "g", "i", "m", "t", "x">>
DigitChars == <<"0", "1", "2", "3", "4", "5", "6", "7", "8", "9">>

\* ord(c), as far as the order of the characters goes
ord(c) == CHOOSE i \in 1..Len(Chars) : Chars[i] = c

isdigit_char(c) == c \in Range(DigitChars)
DigitValue(c) == (CHOOSE i \in 1..Len(DigitChars) : DigitChars[i] = c) - 1

\* str.lower
lower_char(c) == CASE c = "A" -> "a" [] c = "B" -> "b" [] OTHER -> c
lower(text) == [i \in 1..Len(text) |-> lower_char(text[i])]

\* str.isdigit: not empty and digits only
isdigit(text) == text # <<>> /\ \A i \in 1..Len(text) : isdigit_char(text[i])

\* int(text) of a digit string
RECURSIVE int(_)
int(text) ==
    IF text = <<>> THEN 0
    ELSE 10 * int(SubSeq(text, 1, Len(text) - 1)) + DigitValue(text[Len(text)])

\* The length of the longest prefix of s made of digits (digit = TRUE) or of
\* other characters (digit = FALSE)
RECURSIVE RunLength(_, _)
RunLength(s, digit) ==
    IF s = <<>> \/ isdigit_char(s[1]) # digit THEN 0
    ELSE 1 + RunLength(Tail(s), digit)

\* re.split(r'([0-9]+)', s): the texts between the digit runs and, the pattern
\* being a group, the digit runs themselves
RECURSIVE re_split(_)
re_split(s) ==
    LET n == RunLength(s, FALSE)
        rest == SubSeq(s, n + 1, Len(s))
        d == RunLength(rest, TRUE)
    IN  IF rest = <<>> THEN <<SubSeq(s, 1, n)>>
        ELSE <<SubSeq(s, 1, n), SubSeq(rest, 1, d)>>
             \o re_split(SubSeq(rest, d + 1, Len(rest)))

\* An element of a sort key: an int or a string
KeyInt(n) == [isInt |-> TRUE, int |-> n, str |-> <<>>]
KeyStr(text) == [isInt |-> FALSE, int |-> 0, str |-> text]

\* C17 mutant: the key is the lower-cased name, digits compared as text
lower_sort_key(s) == <<KeyStr(lower(s))>>

\* DeviceManager._natural_sort_key
_natural_sort_key(s) ==
    LET parts == re_split(s)
    IN  [i \in 1..Len(parts) |->
            IF isdigit(parts[i]) THEN KeyInt(int(parts[i])) ELSE KeyStr(lower(parts[i]))]

\* Python 2 "<" on strings: by character, a proper prefix first
RECURSIVE StrLess(_, _)
StrLess(a, b) ==
    IF b = <<>> THEN FALSE
    ELSE IF a = <<>> THEN TRUE
    ELSE IF a[1] # b[1] THEN ord(a[1]) < ord(b[1])
    ELSE StrLess(Tail(a), Tail(b))

\* Python 2 "<" on key elements: a number is smaller than any string
ElemLess(x, y) ==
    IF x.isInt /\ y.isInt THEN x.int < y.int
    ELSE IF x.isInt # y.isInt THEN x.isInt
    ELSE StrLess(x.str, y.str)

\* Python 2 "<" on lists: the first differing element decides, a proper prefix
\* comes first
RECURSIVE KeyLess(_, _)
KeyLess(k1, k2) ==
    IF k2 = <<>> THEN FALSE
    ELSE IF k1 = <<>> THEN TRUE
    ELSE IF k1[1] # k2[1] THEN ElemLess(k1[1], k2[1])
    ELSE KeyLess(Tail(k1), Tail(k2))

\* sorted(paths, key=self._natural_sort_key): a stable sort, so that a path goes
\* behind the paths before it whose key is not greater
InsertByKey(x, s) ==
    LET n == Cardinality({i \in 1..Len(s) :
                             ~KeyLess(_natural_sort_key(x), _natural_sort_key(s[i]))})
    IN  SubSeq(s, 1, n) \o <<x>> \o SubSeq(s, n + 1, Len(s))

RECURSIVE sorted(_)
sorted(paths) ==
    IF paths = <<>> THEN <<>>
    ELSE InsertByKey(paths[Len(paths)], sorted(SubSeq(paths, 1, Len(paths) - 1)))

\* os.path.join(root, file)
join(root, file) == root \o <<"/">> \o file

\* file_name.split('.')[-1]: what follows the last dot, or the whole name
RECURSIVE AfterLastDot(_)
AfterLastDot(name) ==
    IF \A i \in 1..Len(name) : name[i] # "." THEN name
    ELSE AfterLastDot(Tail(name))

\* formats = ['tif', 'tiff'] (lines 108-109)
formats == {<<"t", "i", "f">>, <<"t", "i", "f", "f">>}

\* DeviceManager._is_valid_format
_is_valid_format(file_name) == lower(AfterLastDot(file_name)) \in formats

\* filter of a list, in list order
RECURSIVE ValidFiles(_)
ValidFiles(files) ==
    IF files = <<>> THEN <<>>
    ELSE (IF _is_valid_format(files[1]) THEN <<files[1]>> ELSE <<>>)
         \o ValidFiles(Tail(files))

\* DeviceManager._get_sorted_image_files
_get_sorted_image_files(root, files) ==
    LET valid == ValidFiles(files)
    IN  sorted([i \in 1..Len(valid) |-> join(root, valid[i])])

\* ---- the directory walk.  A directory is [dir, sub]: rootDir is [0, ""], the
\* raw directories [k, ""] (k > 0) lie directly under rootDir, and [k, "colored"],
\* [k, "merged"] are the generated directories under directory k.
RootDir == [dir |-> 0, sub |-> ""]
DirOf(p) == [dir |-> p.dir, sub |-> p.sub]

\* The name os.walk lists a directory under (raw directories: their number)
DirName(d) == IF d.sub # "" THEN d.sub ELSE ToString(d.dir)

\* The directories of the disk that lie directly under d
SubDirs(d, disk) ==
    {c \in {DirOf(p) : p \in disk} :
        \/ d.sub = "" /\ c.sub # "" /\ c.dir = d.dir
        \/ d = RootDir /\ c.sub = "" /\ c.dir > 0}

\* The position of a directory in the walk of the whole tree
DirRank(d) ==
    3 * d.dir + (CASE d.sub = "" -> 0 [] d.sub = "colored" -> 1 [] OTHER -> 2)

\* C16 mutant: the walk descends into every listed sub-directory
PruneNothing(dirs) == dirs

\* dirs[:] = [d for d in dirs if d not in ['colored', 'merged']] (line 119)
PruneGenerated(dirs) == {d \in dirs : DirName(d) \notin {"colored", "merged"}}

\* Lines 115-119: the sub-directories os.walk will descend into
KeptDirs(d, disk, recursive) ==
    PruneGenerated(IF recursive THEN SubDirs(d, disk) ELSE {})

\* os.walk(top), top-down: the directories it yields from d on
RECURSIVE os_walk(_, _, _)
RECURSIVE WalkEach(_, _, _)
os_walk(d, disk, recursive) ==
    <<d>> \o WalkEach(KeptDirs(d, disk, recursive), disk, recursive)
WalkEach(dirs, disk, recursive) ==
    IF dirs = {} THEN <<>>
    ELSE LET c == CHOOSE x \in dirs : \A y \in dirs : DirRank(x) <= DirRank(y)
         IN  os_walk(c, disk, recursive) \o WalkEach(dirs \ {c}, disk, recursive)

\* The files of one directory in sorted order: a raw file is "<base>.tif" and a
\* generated one "<base><suffix>.tif", so that within a directory the natural
\* sort key orders by the number base
RECURSIVE SortedFiles(_)
SortedFiles(files) ==
    IF files = {} THEN <<>>
    ELSE LET f == CHOOSE x \in files : \A y \in files : x.base <= y.base
         IN  <<f>> \o SortedFiles(files \ {f})

\* self._get_sorted_image_files(root, files, formats) for directory d (every
\* file of the disk has a valid format)
DirFiles(d, disk) == SortedFiles({p \in disk : DirOf(p) = d})

\* Lines 112-126: image_files after the loop over os.walk(self.rootDir).  With
\* onerror left at None os.walk swallows the error of listing an unreadable top
\* directory and yields nothing.
RECURSIVE ExtendAll(_, _, _)
ExtendAll(dirs, i, disk) ==
    IF i > Len(dirs) THEN <<>>
    ELSE DirFiles(dirs[i], disk) \o ExtendAll(dirs, i + 1, disk)

scan_image_files(disk, recursive, readable) ==
    IF readable THEN ExtendAll(os_walk(RootDir, disk, recursive), 1, disk) ELSE <<>>

\* The files under rootDir: the raw ones and what the run has saved so far
Disk == Range(fsFiles) \cup written

NoStage == [confirm |-> "none", color |-> "none", merge |-> "none"]

\* DeviceManager.walk_directory_and_add_images, as run_selected_processes
\* calls it first
walk_directory_and_add_images ==
    /\ pc = "start"
    /\ image_files' = scan_image_files(Disk, process_subdirectories, rootReadable)
    /\ devices' = GroupDevices(image_files')
    /\ device_dict' = [n \in {devices'[k].name : k \in 1..Len(devices')} |->
                          CHOOSE k \in 1..Len(devices') : devices'[k].name = n]
    /\ printed' = printed \cup
                  (IF Len(image_files') % numTypes # 0
                   THEN log("not_multiple", "INFO")
                   ELSE log("assigned", "INFO"))
    /\ stageSt' = [k \in 1..Len(devices') |-> NoStage]
    /\ outcomes' = [k \in 1..Len(devices') |-> [t \in Range(typeNames) |-> <<>>]]
    /\ mergeResult' = [k \in 1..Len(devices') |-> "none"]
    /\ pc' = "gate"
    /\ cur' = 1
    /\ stageIdx' = 1
    /\ colorOf' = [k \in 1..Len(devices') |-> [t \in Range(typeNames) |-> ""]]
    /\ UNCHANGED <<config, bench, shown, written, pos, call, unreleased>>

\* --------------------------------------------------- run_selected_processes
\* C7 mutant: the merge block is placed before the colorize block
StageOrderMergeFirst == <<"confirm", "merge", "color">>

\* The loop body of run_selected_processes, lines 173-187
StageOrder == <<"confirm", "color", "merge">>

\* self.options.get('confirm_image_types'), .get("color"), .get("merge")
StageEnabled(stage) == options[stage]

InLoop == pc = "gate" /\ cur <= Len(devices)

\* C18 mutant: the shorter list is padded with its last element
zip_padded(a, b) ==
    [i \in 1..(IF Len(a) >= Len(b) THEN Len(a) ELSE Len(b)) |->
        <<a[Min(i, Len(a))], b[Min(i, Len(b))]>>]

\* Python's zip of two lists: it stops at the shorter one
zip(a, b) == [i \in 1..Min(Len(a), Len(b)) |-> <<a[i], b[i]>>]

\* for img_type, color in zip(self.typeNames, typeColors): the number of rounds
NumPairs == Len(zip(typeNames, typeColors))

NoPos == [t |-> 0, i |-> 0, skip |-> {}]

\* The confirm loop's next image at or after (t, i): types in dictionary order,
\* a type whose value was None when items() was taken is skipped, the list of
\* the type is the dictionary's own list and is read by index.
RECURSIVE ConfirmPos(_, _, _, _)
ConfirmPos(dev, t, i, skip) ==
    IF t > Len(dictOrder) THEN NoPos
    ELSE IF dictOrder[t] \notin skip /\ i <= Len(dev.image_paths[dictOrder[t]])
         THEN [t |-> t, i |-> i, skip |-> skip]
         ELSE ConfirmPos(dev, t + 1, 1, skip)

\* The colorize loop's next image at or after (t, i): the zipped types in
\* typeNames order, a type without paths is skipped.
RECURSIVE ColorPos(_, _, _)
ColorPos(dev, t, i) ==
    IF t > NumPairs THEN NoPos
    ELSE IF i <= Len(get_image_paths(dev, zip(typeNames, typeColors)[t][1]))
         THEN [t |-> t, i |-> i, skip |-> {}]
         ELSE ColorPos(dev, t + 1, 1)

\* for device in self.devices: the loop is over
Finished ==
    /\ pc = "gate"
    /\ cur > Len(devices)
    /\ printed' = printed \cup log("finished", "INFO")
    /\ pc' = "done"
    /\ call' = NoCall
    /\ UNCHANGED <<config, bench, shown, image_files, devices, device_dict, written, cur,
                   stageIdx, pos, stageSt, outcomes, mergeResult, colorOf, unreleased>>

\* System.gc() and the next device
EndDevice ==
    /\ InLoop
    /\ stageIdx > Len(StageOrder)
    /\ cur' = cur + 1
    /\ stageIdx' = 1
    /\ call' = NoCall
    /\ UNCHANGED <<config, bench, shown, image_files, devices, device_dict, printed, written,
                   pc, pos, stageSt, outcomes, mergeResult, colorOf, unreleased>>

\* An option of the loop body is off
SkipStage ==
    /\ InLoop
    /\ stageIdx <= Len(StageOrder)
    /\ ~StageEnabled(StageOrder[stageIdx])
    /\ stageIdx' = stageIdx + 1
    /\ call' = NoCall
    /\ UNCHANGED <<config, bench, shown, image_files, devices, device_dict, printed, written,
                   pc, cur, pos, stageSt, outcomes, mergeResult, colorOf, unreleased>>

\* A stage's loop starts at position p, or is over at once when p is NoPos
EnterStage(stage, p) ==
    /\ pos' = p
    /\ IF p = NoPos
       THEN /\ stageSt' = [stageSt EXCEPT ![cur][stage] = "done"]
            /\ pc' = "gate"
            /\ stageIdx' = stageIdx + 1
       ELSE /\ stageSt' = [stageSt EXCEPT ![cur][stage] = "running"]
            /\ pc' = stage
            /\ UNCHANGED stageIdx

\* A stage's loop goes on at position p, or is over when p is NoPos
ContinueStage(stage, p) ==
    /\ pos' = p
    /\ IF p = NoPos
       THEN /\ stageSt' = [stageSt EXCEPT ![cur][stage] = "done"]
            /\ pc' = "gate"
            /\ stageIdx' = stageIdx + 1
       ELSE UNCHANGED <<stageSt, pc, stageIdx>>

\* An exception leaves run_selected_processes
Crash ==
    /\ pc' = "crashed"
    /\ UNCHANGED <<pos, stageSt, stageIdx>>

\* ImageTypeChangerGui(device).confirm_and_change_image_type() is entered:
\* get_image_paths().items() is taken
BeginConfirm ==
    /\ InLoop
    /\ stageIdx <= Len(StageOrder)
    /\ StageOrder[stageIdx] = "confirm"
    /\ StageEnabled("confirm")
    /\ EnterStage("confirm",
                  ConfirmPos(devices[cur], 1, 1,
                             {t \in Range(dictOrder) : devices[cur].image_paths[t] = None}))
    /\ call' = NoCall
    /\ UNCHANGED <<config, bench, shown, image_files, devices, device_dict, printed, written,
                   cur, outcomes, mergeResult, colorOf, unreleased>>

\* What the dialog of one image can give: IJ.openImage returns None (image.show()
\* then raises), the dialog is canceled (None), or a radio button of valid_types
Choices == {"open_failed", "canceled"} \cup Range(typeNames)

\* C19 mutant: the test is "new_type != img_type" alone
reassign_unless_same(new_type, img_type) == new_type # img_type

\* confirm_and_change_image_type, line 375: "if new_type and new_type !=
\* img_type", new_type being None after a canceled dialog
reassign_wanted(new_type, img_type) == new_type # "canceled" /\ new_type # img_type

\* What is recorded of a dialog that leads to no update_image_type call
DialogCall(choice) ==
    IF choice = "canceled" THEN [NoCall EXCEPT !.op = "canceled"] ELSE NoCall

\* One image of confirm_and_change_image_type: _show_image_and_get_new_type and,
\* for another type than the current one, _update_image_type
ConfirmStep ==
    /\ pc = "confirm"
    /\ \E choice \in Choices, loaded \in BOOLEAN :
        LET dev == devices[cur]
            img_type == dictOrder[pos.t]
            image_path == dev.image_paths[img_type][pos.i]
            r == update_image_type(dev, image_path, img_type, choice)
        IN  /\ IF choice = "open_failed"
               THEN /\ Crash
                    /\ call' = NoCall
                    /\ UNCHANGED devices
               ELSE IF ~reassign_wanted(choice, img_type)
               THEN /\ ContinueStage("confirm",
                                      ConfirmPos(dev, pos.t, pos.i + 1, pos.skip))
                    /\ call' = DialogCall(choice)
                    /\ UNCHANGED devices
               ELSE IF ~loaded
               THEN /\ Crash
                    /\ call' = DialogCall(choice)
                    /\ UNCHANGED devices
               ELSE /\ devices' = [devices EXCEPT ![cur] = r.dev]
                    /\ call' = [op |-> IF choice = "canceled" THEN "canceled" ELSE "update",
                                dev |-> cur, path |-> image_path,
                                old |-> img_type, new |-> choice,
                                present |-> image_path \in Range(get_image_paths(dev, img_type)),
                                raised |-> r.raised]
                    /\ IF r.raised
                       THEN Crash
                       ELSE ContinueStage("confirm",
                                          ConfirmPos(r.dev, pos.t, pos.i + 1, pos.skip))
            /\ shown' = IF pc' = "confirm" THEN Append(shown, image_path) ELSE <<>>
    /\ UNCHANGED <<config, bench, image_files, device_dict, printed, written, cur,
                   outcomes, mergeResult, colorOf, unreleased>>

\* device.apply_color_to_images(...) is entered
BeginColor ==
    /\ InLoop
    /\ stageIdx <= Len(StageOrder)
    /\ StageOrder[stageIdx] = "color"
    /\ StageEnabled("color")
    /\ EnterStage("color", ColorPos(devices[cur], 1, 1))
    /\ call' = NoCall
    /\ UNCHANGED <<config, bench, shown, image_files, devices, device_dict, printed, written,
                   cur, outcomes, mergeResult, colorOf, unreleased>>

\* One image of apply_color_to_images
ColorStep ==
    /\ pc = "color"
    /\ \E outcome \in ColorOutcomes :
        LET dev == devices[cur]
            img_type == zip(typeNames, typeColors)[pos.t][1]
            color == zip(typeNames, typeColors)[pos.t][2]
            image_path == get_image_paths(dev, img_type)[pos.i]
            r == _apply_color_to_single_image(dev, img_type, image_path, outcome)
        IN  /\ devices' = [devices EXCEPT ![cur] = r.dev]
            /\ written' = written \cup r.wrote
            /\ outcomes' = [outcomes EXCEPT ![cur][img_type] = Append(@, r.result)]
            /\ colorOf' = [colorOf EXCEPT ![cur][img_type] = color]
            /\ unreleased' = unreleased \cup (IF r.held # {} THEN {cur} ELSE {})
            /\ IF r.raised
               THEN Crash
               ELSE ContinueStage("color", ColorPos(r.dev, pos.t, pos.i + 1))
    /\ call' = NoCall
    /\ UNCHANGED <<config, bench, shown, image_files, device_dict, printed, cur, mergeResult>>

\* device.merge_images(...)
MergeStep ==
    /\ InLoop
    /\ stageIdx <= Len(StageOrder)
    /\ StageOrder[stageIdx] = "merge"
    /\ StageEnabled("merge")
    /\ \E outcome \in MergeOutcomes :
        LET r == merge_images(devices[cur], typeNames, outcome)
        IN  /\ devices' = [devices EXCEPT ![cur] = r.dev]
            /\ written' = written \cup r.wrote
            /\ mergeResult' = [mergeResult EXCEPT ![cur] = r.result]
            /\ IF r.raised
               THEN /\ pc' = "crashed"
                    /\ stageSt' = [stageSt EXCEPT ![cur]["merge"] = "running"]
                    /\ UNCHANGED stageIdx
               ELSE /\ stageSt' = [stageSt EXCEPT ![cur]["merge"] = "done"]
                    /\ stageIdx' = stageIdx + 1
                    /\ UNCHANGED pc
    /\ call' = NoCall
    /\ UNCHANGED <<config, bench, shown, image_files, device_dict, printed, cur, pos, outcomes,
                   colorOf, unreleased>>

\* ------------------------------------------------------------ specifications
Perms(s) ==
    {q \in [1..Len(s) -> Range(s)] : \A i, j \in 1..Len(s) : q[i] = q[j] => i = j}

InitConfig ==
    /\ \E T \in 1..MaxTypes :
        /\ numTypes = T
        /\ typeNames = SubSeq(default_names, 1, T)
        /\ \E c \in {T - 1, T} \cap (1..T) : typeColors = SubSeq(possible_colors, 1, c)
    /\ verbose \in BOOLEAN
    /\ \E n \in 0..MaxFiles : fsFiles = [i \in 1..n |-> File(i)]

\* The function-level specifications are idle
InitBench ==
    /\ listing = <<>>
    /\ sorted_files = <<>>
    /\ images = <<>>
    /\ stack = <<>>

\* DeviceManager.__init__
InitManager ==
    /\ image_files = <<>>
    /\ devices = <<>>
    /\ device_dict = <<>>
    /\ printed = {}
    /\ written = {}
    /\ pc = "start"
    /\ cur = 0
    /\ stageIdx = 0
    /\ pos = NoPos
    /\ stageSt = <<>>
    /\ outcomes = <<>>
    /\ mergeResult = <<>>
    /\ call = NoCall
    /\ colorOf = <<>>
    /\ unreleased = {}
    /\ shown = <<>>

Init ==
    /\ InitConfig
    /\ rootReadable \in BOOLEAN
    /\ process_subdirectories \in BOOLEAN
    /\ InitBench
    /\ options \in [{"confirm", "color", "merge"} -> BOOLEAN]
    /\ dictOrder \in (IF options["confirm"] THEN Perms(typeNames) ELSE {typeNames})
    /\ InitManager

Next ==
    \/ walk_directory_and_add_images
    \/ Finished
    \/ EndDevice
    \/ SkipStage
    \/ BeginConfirm
    \/ ConfirmStep
    \/ BeginColor
    \/ ColorStep
    \/ MergeStep

Spec == Init /\ [][Next]_vars

\* The same run over roots whose directories hold fewer files each, so that
\* the files of one device come from several directories
InitDirs ==
    /\ \E T \in 1..MaxTypes :
        /\ numTypes = T
        /\ typeNames = SubSeq(default_names, 1, T)
        /\ typeColors = SubSeq(possible_colors, 1, T)
    /\ verbose = FALSE
    /\ \E n \in 0..MaxFiles, perDir \in 1..FilesPerDir :
        fsFiles = [i \in 1..n |-> FileIn(i, perDir)]
    /\ rootReadable = TRUE
    /\ process_subdirectories = TRUE
    /\ InitBench
    /\ options \in [{"confirm", "color", "merge"} -> BOOLEAN]
    /\ dictOrder = typeNames
    /\ InitManager

SpecDirs == InitDirs /\ [][Next]_vars

\* The Device interface used directly: update_image_type with any arguments on
\* a grouped device.
\* The (type, index) places of a device's raw-path lists
Entries(dev) ==
    UNION {{<<t, j>> : j \in 1..Len(dev.image_paths[t])} : t \in DOMAIN dev.image_paths}

\* How many places of the device hold path p
Occurrences(dev, p) ==
    Cardinality({e \in Entries(dev) : dev.image_paths[e[1]][e[2]] = p})

\* The arguments tried on the first device: its own paths, a relative spelling
\* of its first file, every configured type and a name that is not configured
ApiPaths(dev) ==
    {dev.image_paths[e[1]][e[2]] : e \in Entries(dev)}
    \cup {[image_files[1] EXCEPT !.abs = FALSE]}
ApiTypes == Range(typeNames) \cup {default_names[Len(typeNames) + 1]}

\* Device.update_image_type called on the first device (devices share no state)
ApiUpdate ==
    /\ InLoop
    /\ \E image_path \in ApiPaths(devices[1]), old_type \in ApiTypes, new_type \in ApiTypes :
        LET r == update_image_type(devices[1], image_path, old_type, new_type)
        IN  /\ Cardinality(Entries(r.dev)) <= MaxListLen
            /\ devices' = [devices EXCEPT ![1] = r.dev]
            /\ call' = [op |-> "update", dev |-> 1, path |-> image_path,
                        old |-> old_type, new |-> new_type,
                        present |-> image_path \in Range(get_image_paths(devices[1], old_type)),
                        raised |-> r.raised]
    /\ UNCHANGED <<config, bench, shown, image_files, device_dict, printed, written, pc, cur,
                   stageIdx, pos, stageSt, outcomes, mergeResult, colorOf, unreleased>>

InitApi ==
    /\ InitConfig
    /\ typeColors = SubSeq(possible_colors, 1, numTypes)
    /\ verbose = FALSE
    /\ options = [s \in {"confirm", "color", "merge"} |-> FALSE]
    /\ dictOrder = typeNames
    /\ rootReadable = TRUE
    /\ process_subdirectories = TRUE
    /\ InitBench
    /\ InitManager

NextApi ==
    \/ walk_directory_and_add_images
    \/ ApiUpdate

SpecApi == InitApi /\ [][NextApi]_vars

\* ---- Device._merge_images on any list of loaded images
\* The widths and heights tried
Sizes == {80, 100, 120}

NoStack == [slices |-> <<>>, width |-> 0, height |-> 0, raised |-> FALSE]

\* A DeviceManager that is never run
InitIdle ==
    /\ numTypes = 1
    /\ typeNames = SubSeq(default_names, 1, 1)
    /\ typeColors = SubSeq(possible_colors, 1, 1)
    /\ verbose = FALSE
    /\ fsFiles = <<>>
    /\ rootReadable = TRUE
    /\ process_subdirectories = TRUE
    /\ options = [s \in {"confirm", "color", "merge"} |-> FALSE]
    /\ dictOrder = typeNames
    /\ InitManager

InitMerge ==
    /\ InitIdle
    /\ listing = <<>>
    /\ sorted_files = <<>>
    /\ \E n \in 1..MaxImages :
        \E w \in [1..n -> Sizes], h \in [1..n -> Sizes] :
            images = [i \in 1..n |-> LoadedImage(i, w[i], h[i])]
    /\ stack = NoStack

\* merged_image = self._merge_images(images)
MergeImages ==
    /\ stack = NoStack
    /\ stack' = _merge_images(images)
    /\ UNCHANGED <<config, shown, image_files, devices, device_dict, printed, written, pc, cur,
                   stageIdx, pos, stageSt, outcomes, mergeResult, call, colorOf,
                   unreleased, listing, sorted_files, images>>

NextMerge == MergeImages

SpecMerge == InitMerge /\ [][NextMerge]_vars

\* ---- DeviceManager._get_sorted_image_files on any listing of one directory
ImgName(stem) == <<"i", "m", "g">> \o stem \o <<".", "t", "i", "f">>

\* The file names a directory may hold
NamePool ==
    {ImgName(<<"A", "1">>), ImgName(<<"A", "2">>), ImgName(<<"A", "1", "0">>),
     ImgName(<<"a", "1">>), ImgName(<<"A", "0", "2">>), ImgName(<<"B", "1">>),
     ImgName(<<"B">>), <<"2", ".", "t", "i", "f">>,
     <<"A", "1", ".", "t", "x", "t">>}

\* The directory the names are listed in
SortRoot == <<"/", "a", "2">>

InitSort ==
    /\ InitIdle
    /\ images = <<>>
    /\ stack = <<>>
    /\ \E n \in 1..MaxListing :
        \E l \in [1..n -> NamePool] :
            /\ \A i, j \in 1..n : l[i] = l[j] => i = j
            /\ listing = l
    /\ sorted_files = <<>>

\* image_files.extend(self._get_sorted_image_files(root, files, formats))
SortListing ==
    /\ pc = "start"
    /\ sorted_files' = _get_sorted_image_files(SortRoot, listing)
    /\ pc' = "sorted"
    /\ UNCHANGED <<config, shown, image_files, devices, device_dict, printed, written, cur,
                   stageIdx, pos, stageSt, outcomes, mergeResult, call, colorOf,
                   unreleased, listing, images, stack>>

NextSort == SortListing

SpecSort == InitSort /\ [][NextSort]_vars

\* --------------------------------------------------------------- properties
\* The state right after walk_directory_and_add_images, before any stage
Grouped == pc = "gate" /\ cur = 1 /\ stageIdx = 1

RawPaths(k) == devices[k].image_paths
ColoredPaths(k) == devices[k].colored_image_paths

MaxOf(S) == CHOOSE x \in S : \A y \in S : y <= x

\* C1: when the number N of scanned files is a multiple of the type count T, the
\* walk creates exactly N/T devices, type t of device k holds exactly the file
\* at flat index k*T + t, and every scanned file sits in exactly one slot.
C1_FlatIndexPartition ==
    (Grouped /\ Len(image_files) % numTypes = 0) =>
        LET N == Len(image_files)
            T == numTypes
        IN  /\ Len(devices) = N \div T
            /\ \A k \in 0..((N \div T) - 1), t \in 0..(T - 1) :
                   RawPaths(k + 1)[typeNames[t + 1]] = <<image_files[k * T + t + 1]>>
            /\ \A i \in 1..N :
                   Cardinality({s \in (1..Len(devices)) \X (1..T) :
                       image_files[i] \in Range(RawPaths(s[1])[typeNames[s[2]]])}) = 1

C1_Witness ==
    /\ Grouped
    /\ numTypes = 2
    /\ Len(image_files) = 4
    /\ Len(devices) = 2
    /\ RawPaths(2)[typeNames[2]] = <<image_files[4]>>

\* C2: when the number of scanned files is not a multiple of the type count, no
\* device is created (list and registry stay empty) and the failure is reported.
C2_AbortReported ==
    (pc # "start" /\ Len(image_files) % numTypes # 0) =>
        /\ devices = <<>>
        /\ DOMAIN device_dict = {}
        /\ "not_multiple" \in printed

\* C3: after grouping and any update_image_type calls, every raw path assigned
\* to a device is held by exactly one place of that device's raw-path lists.
C3_ExactlyOnePlace ==
    \A k \in 1..Len(devices) :
        \A i \in ((k - 1) * numTypes + 1)..(k * numTypes) :
            Occurrences(devices[k], image_files[i]) = 1

\* C4: the type keys of a device's image_paths are the configured type names in
\* every reachable state.
C4_TypeKeysFixed ==
    \A k \in 1..Len(devices) : DOMAIN RawPaths(k) = Range(typeNames)

\* C5: update_image_type called with a path that is not in oldType's list leaves
\* every raw-path list unchanged and raises nothing.
C5_AbsentPathNoOp ==
    [][(call'.op = "update" /\ ~call'.present) =>
          (devices' = devices /\ ~call'.raised)]_vars

C7_StageOrder ==
    \A k \in 1..Len(devices) :
        /\ \A s \in DOMAIN options : ~options[s] => stageSt[k][s] = "none"
        /\ (stageSt[k].color # "none" /\ options.confirm) => stageSt[k].confirm = "done"
        /\ (stageSt[k].merge # "none" /\ options.color) => stageSt[k].color = "done"
        /\ (stageSt[k].merge # "none" /\ options.confirm) => stageSt[k].confirm = "done"
        /\ (k > 1 /\ \E s \in DOMAIN options : stageSt[k][s] # "none") =>
               \A s \in DOMAIN options : options[s] => stageSt[k - 1][s] = "done"
        /\ (\E s \in DOMAIN options : stageSt[k][s] # "none") => k <= cur

C7_Witness ==
    /\ pc = "done"
    /\ Len(devices) >= 2
    /\ \A s \in DOMAIN options : options[s]
    /\ \A k \in 1..Len(devices) : \A s \in DOMAIN options : stageSt[k][s] = "done"

\* C8 as stated: after colorize of a device, for every type that colorize
\* processes (a type paired with a color) whose raw-path list holds several
\* images, coloredPaths[type] is the output path of the last image of the list,
\* never that of an earlier image.
C8_LastImageOfList ==
    \A k \in 1..Len(devices) :
        stageSt[k].color = "done" =>
            \A n \in 1..NumPairs :
                Len(RawPaths(k)[typeNames[n]]) > 1 =>
                    ColoredPaths(k)[typeNames[n]] =
                        ColoredPath(devices[k], Last(RawPaths(k)[typeNames[n]]))

\* C8 amended: after colorize of a device, for every type paired with a color
\* whose raw-path list holds several images, every image of the list has been
\* tried and coloredPaths[type] is the single output path of the last image of
\* the list whose colorization raised nothing, or unset when each one raised.
C8_LastColorizedWins ==
    \A k \in 1..Len(devices) :
        stageSt[k].color = "done" =>
            \A n \in 1..NumPairs :
                LET t == typeNames[n]
                    L == RawPaths(k)[t]
                    o == outcomes[k][t]
                    good == {j \in 1..Len(o) : o[j] # "error"}
                IN  Len(L) > 1 =>
                        /\ Len(o) = Len(L)
                        /\ ColoredPaths(k)[t] =
                               IF good = {} THEN NoPath
                               ELSE ColoredPath(devices[k], L[MaxOf(good)])

C8_Witness ==
    \E k \in 1..Len(devices) : \E n \in 1..NumPairs :
        /\ stageSt[k].color = "done"
        /\ Len(RawPaths(k)[typeNames[n]]) = 2
        /\ outcomes[k][typeNames[n]] = <<"ok", "error">>
        /\ ColoredPaths(k)[typeNames[n]] =
               ColoredPath(devices[k], RawPaths(k)[typeNames[n]][1])

\* C9: an error on one image of colorize is caught at that image: the images
\* are tried one after the other in list order whatever the earlier ones did,
\* colorize never ends the run, and the merge stage and the later devices still
\* run their enabled stages.
C9_ColorErrorIsolated ==
    /\ pc = "color" =>
           /\ \A n \in 1..(pos.t - 1) :
                  Len(outcomes[cur][typeNames[n]]) = Len(RawPaths(cur)[typeNames[n]])
           /\ Len(outcomes[cur][typeNames[pos.t]]) = pos.i - 1
    /\ \A k \in 1..Len(devices) :
           stageSt[k].color = "done" =>
               \A n \in 1..NumPairs :
                   Len(outcomes[k][typeNames[n]]) = Len(RawPaths(k)[typeNames[n]])
    /\ pc = "crashed" => stageSt[cur].color # "running"
    /\ pc = "done" =>
           \A k \in 1..Len(devices) : \A s \in DOMAIN options :
               options[s] => stageSt[k][s] = "done"

C9_Witness ==
    /\ pc = "done"
    /\ Len(devices) >= 2
    /\ options.color /\ options.merge
    /\ NumPairs >= 2
    /\ outcomes[1][typeNames[1]] = <<"error">>
    /\ outcomes[1][typeNames[2]] = <<"ok">>
    /\ mergeResult[1] = "ok"
    /\ stageSt[2].color = "done" /\ stageSt[2].merge = "done"

\* C10: an error inside one device's merge is caught there: merge never ends
\* the run, it changes no raw or colored path of any device, and every later
\* device still runs its enabled stages.
C10_MergeErrorIsolated ==
    /\ [](pc = "crashed" => stageSt[cur].merge # "running")
    /\ []((pc = "done" \/ (pc = "gate" /\ cur > Len(devices))) =>
            \A k \in 1..Len(devices) : \A s \in DOMAIN options :
                options[s] => stageSt[k][s] = "done")
    /\ [][(pc = "gate" /\ mergeResult' # mergeResult) =>
            (devices' = devices /\ pc' # "crashed" /\ cur' = cur
             /\ stageIdx' = stageIdx + 1)]_vars

C10_Witness ==
    /\ pc = "done"
    /\ Len(devices) >= 2
    /\ mergeResult[1] = "error"
    /\ stageSt[2].color = "done"
    /\ mergeResult[2] = "ok"

\* Every colored-path slot of device k is unset
NothingColored(k) == all_colored_image_paths(devices[k], typeNames, 1) = <<>>

\* C11: merging a device whose colored-path slots are all unset loads no image,
\* writes no merged file and raises nothing: it is recorded as skipped.  Hence
\* in a run with colorize off and merge on no slot is ever set, every merge
\* that has run was skipped, nothing is written, no merge ends the run, and
\* when the run is done the merge of every device has been skipped.
C11_EmptyMergeSkipped ==
    /\ \A k \in 1..Len(devices) :
        NothingColored(k) =>
            /\ \A outcome \in MergeOutcomes :
                LET r == merge_images(devices[k], typeNames, outcome)
                IN  r.loaded = {} /\ r.wrote = {} /\ ~r.raised /\ r.result = "skipped"
            /\ mergeResult[k] \in {"none", "skipped"}
            /\ MergedPath(devices[k]) \notin written
            /\ stageSt[k]["merge"] # "running"
    /\ (~options["color"] /\ options["merge"]) =>
            /\ \A k \in 1..Len(devices) : NothingColored(k)
            /\ written = {}
            /\ pc = "done" => \A k \in 1..Len(devices) :
                                  mergeResult[k] = "skipped" /\ stageSt[k]["merge"] = "done"
            /\ pc = "crashed" => stageSt[cur]["confirm"] = "running"

\* Colorize off, merge on, two devices: the run is done and both merges skipped
C11_Witness ==
    /\ pc = "done"
    /\ ~options["color"]
    /\ options["merge"]
    /\ Len(devices) >= 2
    /\ \A k \in 1..Len(devices) : mergeResult[k] = "skipped"

\* The scan's file count is no multiple of the number of types
GroupingAborted == pc # "start" /\ Len(image_files) % numTypes # 0

\* C12: when grouping aborts because the file count is no multiple of the type
\* count, run_selected_processes runs no confirm, colorize or merge stage for
\* any device and writes no output file: there is no device, no stage is ever
\* entered, no dialog is shown, no buffer is loaded and nothing is written.
C12_AbortRunsNoStage ==
    GroupingAborted =>
        /\ devices = <<>>
        /\ stageSt = <<>>
        /\ outcomes = <<>>
        /\ mergeResult = <<>>
        /\ written = {}
        /\ unreleased = {}
        /\ call = NoCall
        /\ pc \in {"gate", "done"}

\* Three files for two types with every stage on: the run is over
C12_Witness ==
    /\ GroupingAborted
    /\ pc = "done"
    /\ Len(image_files) > numTypes
    /\ \A st \in DOMAIN options : options[st]

\* C13: in a run whose root directory is readable and whose file count is a
\* multiple of the type count, no error of the confirm, colorize or merge stage
\* leaves its image or device: no exception ends run_selected_processes, and
\* when the run is done every device has been through every enabled stage.
C13_StageErrorsNeverFatal ==
    (rootReadable /\ pc # "start" /\ ~GroupingAborted) =>
        /\ pc # "crashed"
        /\ pc = "done" => \A k \in 1..Len(devices) : \A st \in DOMAIN options :
                              options[st] => stageSt[k][st] = "done"

\* C14: when the root directory is unreadable the scan fails with a
\* directory-access error that ends the run: no device is created, no stage
\* runs, and the run neither reports an assignment of images to devices nor
\* finishes as it does after a scan that found no file.
C14_UnreadableRootAborts ==
    (~rootReadable /\ pc # "start") =>
        /\ pc = "crashed"
        /\ devices = <<>>
        /\ "assigned" \notin printed
        /\ "finished" \notin printed

\* The sizes of a list of images, as <<width, height>> pairs
SizesOf(imgs) == [i \in 1..Len(imgs) |-> <<imgs[i].width, imgs[i].height>>]

\* C15: the stack of a merge keeps the images in collection order; when all
\* images have the same width and height none is cropped; otherwise every
\* image is cropped to its top-left region of minWidth x minHeight, the two
\* minima taken independently over all images; every slice has the size of the
\* stack (100x100, 100x100 and 80x120 give three slices of 80x100).
C15_CropToSmallest ==
    stack # NoStack =>
        LET n == Len(images)
            minWidth == MinOf({images[i].width : i \in 1..n})
            minHeight == MinOf({images[i].height : i \in 1..n})
            same == \A i, j \in 1..n : SizesOf(images)[i] = SizesOf(images)[j]
        IN  /\ ~stack.raised
            /\ Len(stack.slices) = n
            /\ \A i \in 1..n : stack.slices[i].title = images[i].title
            /\ same => stack.slices = images
            /\ ~same => \A i \in 1..n :
                   stack.slices[i] =
                       [title |-> images[i].title, width |-> minWidth,
                        height |-> minHeight, left |-> 0, top |-> 0, fresh |-> TRUE]
            /\ \A i \in 1..n : SizesOf(stack.slices)[i] = <<stack.width, stack.height>>
            /\ SizesOf(images) = <<<<100, 100>>, <<100, 100>>, <<80, 120>>>>
                   => SizesOf(stack.slices) = <<<<80, 100>>, <<80, 100>>, <<80, 100>>>>

\* The example of the claim has been merged
C15_Witness ==
    /\ SizesOf(images) = <<<<100, 100>>, <<100, 100>>, <<80, 120>>>>
    /\ SizesOf(stack.slices) = <<<<80, 100>>, <<80, 100>>, <<80, 100>>>>
    /\ \A i \in 1..3 : stack.slices[i].fresh

\* A file of a directory named colored or merged
Generated(p) == p.sub \in {"colored", "merged"}

\* C16: the scan never yields a file that lies under a directory named colored
\* or merged, with or without recursion; so a scan of the same root started
\* at any later point of the run yields none of the files the run has written
\* into those directories, but the same raw files as the first scan.
C16_GeneratedDirsNotScanned ==
    /\ \A i \in 1..Len(image_files) : ~Generated(image_files[i])
    /\ \A p \in written : Generated(p)
    /\ \A recursive \in BOOLEAN :
        LET again == scan_image_files(Disk, recursive, rootReadable)
        IN  /\ \A i \in 1..Len(again) : ~Generated(again[i])
            /\ Range(again) \cap written = {}
    /\ pc # "start" =>
            scan_image_files(Disk, process_subdirectories, rootReadable) = image_files

\* A recursive run over two directories is done and has written colored and
\* merged files next to the raw ones
C16_Witness ==
    /\ pc = "done"
    /\ process_subdirectories
    /\ \E p, q \in written : p.sub = "colored" /\ q.sub = "merged" /\ p.dir # q.dir
    /\ Len(image_files) = MaxFiles
    /\ scan_image_files(Disk, TRUE, rootReadable) = image_files

\* Natural order told on the characters: -1, 0 or 1 as a comes before, with or
\* after b.  Two digit runs are compared as numbers; otherwise the end of the
\* name comes before a digit, a digit before any other character, and two
\* other characters are compared without regard to case.
RECURSIVE NaturalCompare(_, _)
NaturalCompare(a, b) ==
    IF a = <<>> /\ b = <<>> THEN 0
    ELSE IF a = <<>> THEN -1
    ELSE IF b = <<>> THEN 1
    ELSE IF isdigit_char(a[1]) /\ isdigit_char(b[1])
    THEN LET m == RunLength(a, TRUE)
             n == RunLength(b, TRUE)
             x == int(SubSeq(a, 1, m))
             y == int(SubSeq(b, 1, n))
         IN  IF x < y THEN -1
             ELSE IF x > y THEN 1
             ELSE NaturalCompare(SubSeq(a, m + 1, Len(a)), SubSeq(b, n + 1, Len(b)))
    ELSE IF isdigit_char(a[1]) THEN -1
    ELSE IF isdigit_char(b[1]) THEN 1
    ELSE IF lower_char(a[1]) # lower_char(b[1])
    THEN (IF ord(lower_char(a[1])) < ord(lower_char(b[1])) THEN -1 ELSE 1)
    ELSE NaturalCompare(Tail(a), Tail(b))

\* C17: the files _get_sorted_image_files returns for one directory are the
\* listed files of a valid format, each once, joined to the directory, in
\* natural order whatever the order of the listing: of two files that differ
\* in natural order the smaller one comes first (imgA2.tif, imgA10.tif,
\* imgA1.tif give imgA1.tif, imgA2.tif, imgA10.tif).
C17_NaturalOrder ==
    pc = "sorted" =>
        LET valid == {f \in Range(listing) : _is_valid_format(f)}
        IN  /\ Range(sorted_files) = {join(SortRoot, f) : f \in valid}
            /\ Len(sorted_files) = Cardinality(valid)
            /\ \A i, j \in 1..Len(sorted_files) :
                   i < j => NaturalCompare(sorted_files[i], sorted_files[j]) <= 0
            /\ listing = <<ImgName(<<"A", "2">>), ImgName(<<"A", "1", "0">>),
                           ImgName(<<"A", "1">>)>>
                   => sorted_files = <<join(SortRoot, ImgName(<<"A", "1">>)),
                                       join(SortRoot, ImgName(<<"A", "2">>)),
                                       join(SortRoot, ImgName(<<"A", "1", "0">>))>>

\* The example of the claim has been sorted
C17_Witness ==
    /\ pc = "sorted"
    /\ listing = <<ImgName(<<"A", "2">>), ImgName(<<"A", "1", "0">>), ImgName(<<"A", "1">>)>>
    /\ sorted_files = <<join(SortRoot, ImgName(<<"A", "1">>)),
                        join(SortRoot, ImgName(<<"A", "2">>)),
                        join(SortRoot, ImgName(<<"A", "1", "0">>))>>

\* C18: colorize pairs the type names with the colors by position and goes
\* through the first min(#names, #colors) types only: type i is colorized
\* with color i, every image of it once; a type beyond that number is never
\* colorized and its colored-path slot stays unset; and no error leaves the
\* colorize stage.
C18_PairsByPosition ==
    LET n == Min(Len(typeNames), Len(typeColors))
    IN  /\ \A k \in 1..Len(devices) : \A t \in 1..Len(typeNames) :
            LET ty == typeNames[t]
            IN  IF t <= n
                THEN /\ colorOf[k][ty] \in {"", typeColors[t]}
                     /\ outcomes[k][ty] # <<>> => colorOf[k][ty] = typeColors[t]
                     /\ Len(outcomes[k][ty]) <= Len(RawPaths(k)[ty])
                     /\ stageSt[k]["color"] = "done" =>
                            Len(outcomes[k][ty]) = Len(RawPaths(k)[ty])
                ELSE /\ colorOf[k][ty] = ""
                     /\ outcomes[k][ty] = <<>>
                     /\ ColoredPaths(k)[ty] = NoPath
        /\ pc = "crashed" => stageSt[cur]["color"] # "running"

\* Two types and one color: the first device's first type was colorized, its
\* second type holds an image and was left alone
C18_Witness ==
    /\ Len(typeColors) < Len(typeNames)
    /\ pc = "done"
    /\ Len(devices) >= 1
    /\ stageSt[1]["color"] = "done"
    /\ outcomes[1][typeNames[1]] = <<"ok">>
    /\ colorOf[1][typeNames[1]] = typeColors[1]
    /\ RawPaths(1)[typeNames[2]] # <<>>
    /\ outcomes[1][typeNames[2]] = <<>>
    /\ ColoredPaths(1)[typeNames[2]] = NoPath

\* The images the confirm loop of the current device has still to show after
\* the one at pos
ImagesAfter ==
    {q \in (1..Len(dictOrder)) \X (1..MaxFiles) :
        /\ dictOrder[q[1]] \notin pos.skip
        /\ q[2] <= Len(RawPaths(cur)[dictOrder[q[1]]])
        /\ q[1] > pos.t \/ (q[1] = pos.t /\ q[2] > pos.i)}

\* C19: canceling the dialog of one image gives up that reassignment only: the
\* step changes no raw-path list (the image stays in its type) and nothing
\* else of any device, raises nothing, and the run goes on: with the next
\* image of the device if there is one, otherwise with the device's next stage.
C19_CancelKeepsType ==
    [][(pc = "confirm" /\ call'.op = "canceled") =>
          /\ devices' = devices
          /\ written' = written
          /\ cur' = cur
          /\ IF ImagesAfter = {}
             THEN /\ pc' = "gate"
                  /\ stageSt'[cur]["confirm"] = "done"
                  /\ stageIdx' = stageIdx + 1
             ELSE /\ pc' = "confirm"
                  /\ <<pos'.t, pos'.i>> \in ImagesAfter
                  /\ \A q \in ImagesAfter :
                         pos'.t < q[1] \/ (pos'.t = q[1] /\ pos'.i <= q[2])
                  /\ stageIdx' = stageIdx]_vars

\* The dialog of a device's first image was canceled and its second image is
\* next, both still in the types the grouping gave them
C19_Witness ==
    /\ call.op = "canceled"
    /\ pc = "confirm"
    /\ pos.t = 2
    /\ devices[cur] = GroupDevices(image_files)[cur]

\* C20: every image buffer a stage has loaded is released by the stage: once
\* colorize of a device is over none of the buffers it loaded is left
\* unclosed, and a merge that went through leaves none of the buffers it
\* loaded unclosed.
C20_BuffersReleased ==
    \A k \in 1..Len(devices) :
        /\ stageSt[k]["color"] = "done" => k \notin unreleased
        /\ mergeResult[k] \in {"ok", "unsaved"} =>
               \A outcome \in {"ok", "save_failed"} :
                   merge_images(devices[k], typeNames, outcome).held = {}

\* The image the confirm loop presents in the current state
Presented == RawPaths(cur)[dictOrder[pos.t]][pos.i]

\* The raw images of device k
RawImages(k) == UNION {Range(RawPaths(k)[t]) : t \in DOMAIN RawPaths(k)}

\* No image is presented that the running confirm loop has presented before
C21_NotPresentedAgain == pc = "confirm" => Presented \notin Range(shown)

\* When the confirm loop of a device is over, every raw image of the device
\* has been presented
C21_NonePassedOver ==
    [][(pc = "confirm" /\ pc' = "gate") =>
          RawImages(cur) \subseteq Range(shown) \cup {Presented}]_vars

\* C21: during the confirm-types stage of a device every raw image of the
\* device is presented exactly once, whatever the user chooses: an image that
\* was reassigned is not presented again under its new type, and no image is
\* passed over because an earlier one was reassigned.
C21_PresentedExactlyOnce == []C21_NotPresentedAgain /\ C21_NonePassedOver

\* C22: whenever a colored-path slot of a device is set, the file at that path
\* has been written by the colorize stage of this run: a failed save does not
\* leave the unsaved output path in the slot.
C22_SlotMeansSaved ==
    \A k \in 1..Len(devices) : \A t \in DOMAIN ColoredPaths(k) :
        ColoredPaths(k)[t] # NoPath => ColoredPaths(k)[t] \in written

\* C23: within one device distinct raw images get distinct colored output
\* paths, whatever directories the device's files come from: once colorize of
\* a device is over, no two raw images of it share an output path (so that no
\* colored file was overwritten by another image's output) and no two of its
\* types hold the same colored path.
C23_DistinctColoredPaths ==
    \A k \in 1..Len(devices) :
        stageSt[k]["color"] = "done" =>
            /\ \A p, q \in RawImages(k) :
                   p # q => ColoredPath(devices[k], p) # ColoredPath(devices[k], q)
            /\ \A t, u \in DOMAIN ColoredPaths(k) :
                   (t # u /\ ColoredPaths(k)[t] # NoPath) =>
                       ColoredPaths(k)[t] # ColoredPaths(k)[u]
====
